---- MODULE Spec2Model ----
(***************************************************************************)
(* Model of librdkafka's telemetry metrics encoder                         *)
(* (src/rdkafka_telemetry_encode.c): the metric value calculators, the     *)
(* historic snapshot and its reset, the metric tree builder, the two-pass  *)
(* encode with its exit paths, and the heap blocks the call allocates and  *)
(* releases.                                                               *)
(*                                                                         *)
(* A double is modelled as a rational [num, den] (den > 0); an int64 as an *)
(* Int.  A division by zero, which is undefined in C, is the value         *)
(* DivFault; the call that meets it either traps or carries on with 0.     *)
(* An uninitialised pointer or stack slot is the value UNINIT.             *)
(***************************************************************************)
EXTENDS Integers, Sequences, FiniteSets, TLC

\* ---------------------------------------------------------------- bounds
\* most brokers linked to the client
MaxBrokers == 2
\* most broker-side counter updates in one behaviour
MaxEvents == 1
\* most clock ticks in one behaviour
MaxClock == 4

\* ------------------------------------------------------- program constants
RDKAFKA_TELEMETRY_NS_TO_MS_FACTOR == 1000000

\* metric ids, in the order of the calculator tables
RD_KAFKA_TELEMETRY_METRIC_CONNECTION_CREATION_RATE == 0
RD_KAFKA_TELEMETRY_METRIC_CONNECTION_CREATION_TOTAL == 1
RD_KAFKA_TELEMETRY_METRIC_NODE_REQUEST_LATENCY_AVG == 2
RD_KAFKA_TELEMETRY_METRIC_NODE_REQUEST_LATENCY_MAX == 3
RD_KAFKA_TELEMETRY_METRIC_PRODUCER_PRODUCE_THROTTLE_TIME_AVG == 4
RD_KAFKA_TELEMETRY_METRIC_PRODUCER_PRODUCE_THROTTLE_TIME_MAX == 5
RD_KAFKA_TELEMETRY_METRIC_PRODUCER_RECORD_QUEUE_TIME_AVG == 6
RD_KAFKA_TELEMETRY_METRIC_PRODUCER_RECORD_QUEUE_TIME_MAX == 7
RD_KAFKA_TELEMETRY_METRIC_CONSUMER_COORDINATOR_ASSIGNED_PARTITIONS == 4
RD_KAFKA_TELEMETRY_PRODUCER_METRIC__CNT == 8
RD_KAFKA_TELEMETRY_CONSUMER_METRIC__CNT == 5

RD_KAFKA_PRODUCER == "RD_KAFKA_PRODUCER"
RD_KAFKA_CONSUMER == "RD_KAFKA_CONSUMER"

\* a metric value: the union member written, and the number as num/den
IntValue(n) == [member |-> "intValue", num |-> n, den |-> 1]
DoubleValue(n, d) == [member |-> "doubleValue", num |-> n, den |-> d]
\* the outcome of an integer division by zero
DivFault == [member |-> "fault", num |-> 0, den |-> 0]
\* the content of memory that was never written
UNINIT == "UNINIT"

\* Timestamps are kept in microseconds, as rd_uclock() returns them; the C
\* fields hold nanoseconds, rd_uclock() * 1000, which is this value times 1000.
UsPerSecond == 1000000
\* microseconds per clock tick: rd_uclock() advances in half seconds
TickUs == UsPerSecond \div 2

\* ---------------------------------------------------------------- helpers
\* C's integer division: the quotient truncated toward zero
CDiv(a, b) ==
    IF (a >= 0) = (b > 0) THEN (IF a >= 0 THEN a ELSE -a) \div (IF b > 0 THEN b ELSE -b)
    ELSE -((IF a >= 0 THEN a ELSE -a) \div (IF b > 0 THEN b ELSE -b))

RECURSIVE SumSeq(_)
SumSeq(s) == IF s = <<>> THEN 0 ELSE Head(s) + SumSeq(Tail(s))

RECURSIVE MaxSeq(_, _)
MaxSeq(s, m) == IF s = <<>> THEN m
                ELSE MaxSeq(Tail(s), IF Head(s) > m THEN Head(s) ELSE m)

RECURSIVE Concat(_)
Concat(ss) == IF ss = <<>> THEN <<>> ELSE Head(ss) \o Concat(Tail(ss))

Range(s) == {s[i] : i \in DOMAIN s}

VARIABLES
    rk_type,             \* rk->rk_type
    delta_temporality,   \* rk->rk_telemetry.delta_temporality
    matched_metrics,     \* rk->rk_telemetry.matched_metrics[0..matched_metrics_cnt)
    rk_conf,             \* the identity fields that are set (non-empty)
    rk_brokers,          \* rk->rk_brokers, the broker list in link order
    rk_broker_cnt,       \* rk->rk_broker_cnt.val
    clock,               \* rd_uclock() in ticks of TickUs
    budget,              \* broker-side counter updates still allowed
    ret,                 \* the last call's return: "NONE", "NULL", "BUFFER", "CRASH"
    msg,                 \* the encoded message of the last call
    nodes,               \* the metric nodes the last call's build loop populated
    total_metrics_count, \* the node count the last call computed up front
    allocated,           \* heap blocks the last call allocated, in order
    freed,               \* pointers the last call released, in order
    trace,               \* the steps the last call took, in order
    ub,                  \* the undefined behaviours the last call met
    pre_brokers          \* rk_brokers as the last call found it

vars == <<rk_type, delta_temporality, matched_metrics, rk_conf, rk_brokers,
          rk_broker_cnt, clock, budget, ret, msg, nodes,
          total_metrics_count, allocated, freed, trace, ub, pre_brokers>>

cfgvars == <<rk_type, delta_temporality, matched_metrics, rk_conf>>
callvars == <<ret, msg, nodes, total_metrics_count, allocated, freed, trace,
              ub, pre_brokers>>

\* ------------------------------------------------------------ calculators
\* (each takes the broker list, or the one broker, that the C function reads)

\* a faulty variant: the baseline is subtracted whatever the temporality is
calculate_connection_creation_total_AlwaysDelta(brokers, delta) ==
    IntValue(SumSeq([i \in DOMAIN brokers |->
              brokers[i].connects - brokers[i].historic.connects]))

calculate_connection_creation_total(brokers, delta) ==
    IntValue(SumSeq([i \in DOMAIN brokers |->
              IF ~delta THEN brokers[i].connects
              ELSE brokers[i].connects - brokers[i].historic.connects]))

\* ts_last is overwritten by every broker of the loop: the last one stays
RateTsLast(brokers) ==
    IF brokers = <<>> THEN 0 ELSE brokers[Len(brokers)].historic.ts_last

\* (rd_uclock() * 1000 - ts_last) / 1e9, truncated to int
RateSeconds(brokers, now_us) ==
    CDiv(now_us - RateTsLast(brokers), UsPerSecond)

calculate_connection_creation_rate(brokers, now_us) ==
    LET total == SumSeq([i \in DOMAIN brokers |->
                           brokers[i].connects - brokers[i].historic.connects])
        seconds == RateSeconds(brokers, now_us)
    IN  IF seconds > 0 THEN DoubleValue(total, seconds) ELSE DoubleValue(total, 1)

\* the integer quotient of one running statistic against its baseline
AvgSinceBaseline(cur, hist) ==
    IF cur.cnt > hist.cnt
    THEN CDiv(cur.sum - hist.sum,
              (cur.cnt - hist.cnt) * RDKAFKA_TELEMETRY_NS_TO_MS_FACTOR)
    ELSE 0

calculate_broker_avg_rtt(broker) ==
    DoubleValue(AvgSinceBaseline(broker.rkb_avg_rtt, broker.historic.rkb_avg_rtt), 1)

calculate_broker_max_rtt(broker) ==
    IntValue(CDiv(broker.rkb_avg_rtt.maxv_interval, RDKAFKA_TELEMETRY_NS_TO_MS_FACTOR))

\* a faulty variant: the average is taken over the brokers that have new observations
calculate_throttle_avg_OverActiveBrokers(brokers, broker_count) ==
    LET sum_value == SumSeq([i \in DOMAIN brokers |->
            AvgSinceBaseline(brokers[i].rkb_avg_throttle,
                             brokers[i].historic.rkb_avg_throttle)])
        active == Cardinality({i \in DOMAIN brokers :
                     brokers[i].rkb_avg_throttle.cnt
                       > brokers[i].historic.rkb_avg_throttle.cnt})
    IN  IF active = 0 THEN DivFault ELSE IntValue(CDiv(sum_value, active))

calculate_throttle_avg(brokers, broker_count) ==
    LET sum_value == SumSeq([i \in DOMAIN brokers |->
            AvgSinceBaseline(brokers[i].rkb_avg_throttle,
                             brokers[i].historic.rkb_avg_throttle)])
    IN  IF broker_count = 0 THEN DivFault ELSE IntValue(CDiv(sum_value, broker_count))

calculate_throttle_max(brokers) ==
    IntValue(CDiv(MaxSeq([i \in DOMAIN brokers |->
                            brokers[i].rkb_avg_throttle.maxv_interval], 0),
                  RDKAFKA_TELEMETRY_NS_TO_MS_FACTOR))

calculate_queue_time_avg(brokers, broker_count) ==
    LET sum_value == SumSeq([i \in DOMAIN brokers |->
            AvgSinceBaseline(brokers[i].rkb_avg_outbuf_latency,
                             brokers[i].historic.rkb_avg_outbuf_latency)])
    IN  IF broker_count = 0 THEN DivFault ELSE IntValue(CDiv(sum_value, broker_count))

calculate_queue_time_max(brokers) ==
    IntValue(CDiv(MaxSeq([i \in DOMAIN brokers |->
                            brokers[i].rkb_avg_outbuf_latency.maxv_interval], 0),
                  RDKAFKA_TELEMETRY_NS_TO_MS_FACTOR))

calculate_consumer_assigned_partitions(brokers) ==
    IntValue(SumSeq([i \in DOMAIN brokers |->
              brokers[i].rkb_toppar_cnt - brokers[i].historic.assigned_partitions]))


\* --------------------------------------------------- historic snapshot
ZeroStat == [cnt |-> 0, sum |-> 0, maxv_interval |-> 0, maxv_reset |-> 0]
ZeroBase == [cnt |-> 0, sum |-> 0]

\* the baseline keeps the count and the sum of a running statistic
Baseline(stat) == [cnt |-> stat.cnt, sum |-> stat.sum]

\* a faulty variant: the reset forgets the queue-latency statistic
reset_broker_KeepOutbufBaseline(b, now_us) ==
    [b EXCEPT
       !.historic = [assigned_partitions |-> b.rkb_toppar_cnt,
                     connects |-> b.connects,
                     ts_last |-> now_us,
                     ts_start |-> b.historic.ts_start,
                     rkb_avg_rtt |-> Baseline(b.rkb_avg_rtt),
                     rkb_avg_throttle |-> Baseline(b.rkb_avg_throttle),
                     rkb_avg_outbuf_latency |-> b.historic.rkb_avg_outbuf_latency],
       !.rkb_avg_rtt.maxv_reset = 1,
       !.rkb_avg_throttle.maxv_reset = 1,
       !.rkb_avg_outbuf_latency.maxv_reset = 1]

\* a faulty variant: the reset clears the interval maxima itself
reset_broker_ClearsMaxima(b, now_us) ==
    [b EXCEPT
       !.historic = [assigned_partitions |-> b.rkb_toppar_cnt,
                     connects |-> b.connects,
                     ts_last |-> now_us,
                     ts_start |-> b.historic.ts_start,
                     rkb_avg_rtt |-> Baseline(b.rkb_avg_rtt),
                     rkb_avg_throttle |-> Baseline(b.rkb_avg_throttle),
                     rkb_avg_outbuf_latency |-> Baseline(b.rkb_avg_outbuf_latency)],
       !.rkb_avg_rtt.maxv_interval = 0,
       !.rkb_avg_throttle.maxv_interval = 0,
       !.rkb_avg_outbuf_latency.maxv_interval = 0,
       !.rkb_avg_rtt.maxv_reset = 1,
       !.rkb_avg_throttle.maxv_reset = 1,
       !.rkb_avg_outbuf_latency.maxv_reset = 1]

reset_broker(b, now_us) ==
    [b EXCEPT
       !.historic = [assigned_partitions |-> b.rkb_toppar_cnt,
                     connects |-> b.connects,
                     ts_last |-> now_us,
                     ts_start |-> b.historic.ts_start,
                     rkb_avg_rtt |-> Baseline(b.rkb_avg_rtt),
                     rkb_avg_throttle |-> Baseline(b.rkb_avg_throttle),
                     rkb_avg_outbuf_latency |-> Baseline(b.rkb_avg_outbuf_latency)],
       !.rkb_avg_rtt.maxv_reset = 1,
       !.rkb_avg_throttle.maxv_reset = 1,
       !.rkb_avg_outbuf_latency.maxv_reset = 1]

reset_historical_metrics(brokers, now_us) ==
    [i \in DOMAIN brokers |-> reset_broker(brokers[i], now_us)]

\* ------------------------------------------------------ metric catalogue
MetricCnt(type) ==
    IF type = RD_KAFKA_PRODUCER THEN RD_KAFKA_TELEMETRY_PRODUCER_METRIC__CNT
    ELSE RD_KAFKA_TELEMETRY_CONSUMER_METRIC__CNT

\* the aggregation kind of a catalogue entry
MetricType(type, metric_idx) ==
    IF metric_idx = RD_KAFKA_TELEMETRY_METRIC_CONNECTION_CREATION_TOTAL
    THEN "SUM" ELSE "GAUGE"

is_per_broker_metric(type, metric_idx) ==
    \/ /\ type = RD_KAFKA_PRODUCER
       /\ metric_idx \in {RD_KAFKA_TELEMETRY_METRIC_NODE_REQUEST_LATENCY_AVG,
                          RD_KAFKA_TELEMETRY_METRIC_NODE_REQUEST_LATENCY_MAX}
    \/ /\ type = RD_KAFKA_CONSUMER
       /\ metric_idx \in {RD_KAFKA_TELEMETRY_METRIC_NODE_REQUEST_LATENCY_AVG,
                          RD_KAFKA_TELEMETRY_METRIC_NODE_REQUEST_LATENCY_MAX}

\* PRODUCER_METRIC_VALUE_CALCULATORS[metric_idx](rk, rkb)
ProducerCalculator(metric_idx, brokers, rkb, broker_count, delta, now_us) ==
    CASE metric_idx = RD_KAFKA_TELEMETRY_METRIC_CONNECTION_CREATION_RATE ->
           calculate_connection_creation_rate(brokers, now_us)
      [] metric_idx = RD_KAFKA_TELEMETRY_METRIC_CONNECTION_CREATION_TOTAL ->
           calculate_connection_creation_total(brokers, delta)
      [] metric_idx = RD_KAFKA_TELEMETRY_METRIC_NODE_REQUEST_LATENCY_AVG ->
           calculate_broker_avg_rtt(rkb)
      [] metric_idx = RD_KAFKA_TELEMETRY_METRIC_NODE_REQUEST_LATENCY_MAX ->
           calculate_broker_max_rtt(rkb)
      [] metric_idx = RD_KAFKA_TELEMETRY_METRIC_PRODUCER_PRODUCE_THROTTLE_TIME_AVG ->
           calculate_throttle_avg(brokers, broker_count)
      [] metric_idx = RD_KAFKA_TELEMETRY_METRIC_PRODUCER_PRODUCE_THROTTLE_TIME_MAX ->
           calculate_throttle_max(brokers)
      [] metric_idx = RD_KAFKA_TELEMETRY_METRIC_PRODUCER_RECORD_QUEUE_TIME_AVG ->
           calculate_queue_time_avg(brokers, broker_count)
      [] metric_idx = RD_KAFKA_TELEMETRY_METRIC_PRODUCER_RECORD_QUEUE_TIME_MAX ->
           calculate_queue_time_max(brokers)

\* CONSUMER_METRIC_VALUE_CALCULATORS[metric_idx](rk, rkb)
ConsumerCalculator(metric_idx, brokers, rkb, broker_count, delta, now_us) ==
    CASE metric_idx = RD_KAFKA_TELEMETRY_METRIC_CONNECTION_CREATION_RATE ->
           calculate_connection_creation_rate(brokers, now_us)
      [] metric_idx = RD_KAFKA_TELEMETRY_METRIC_CONNECTION_CREATION_TOTAL ->
           calculate_connection_creation_total(brokers, delta)
      [] metric_idx = RD_KAFKA_TELEMETRY_METRIC_NODE_REQUEST_LATENCY_AVG ->
           calculate_broker_avg_rtt(rkb)
      [] metric_idx = RD_KAFKA_TELEMETRY_METRIC_NODE_REQUEST_LATENCY_MAX ->
           calculate_broker_max_rtt(rkb)
      [] metric_idx = RD_KAFKA_TELEMETRY_METRIC_CONSUMER_COORDINATOR_ASSIGNED_PARTITIONS ->
           calculate_consumer_assigned_partitions(brokers)

metricValueCalculator(type, metric_idx, brokers, rkb, broker_count, delta, now_us) ==
    IF type = RD_KAFKA_PRODUCER
    THEN ProducerCalculator(metric_idx, brokers, rkb, broker_count, delta, now_us)
    ELSE ConsumerCalculator(metric_idx, brokers, rkb, broker_count, delta, now_us)

\* ------------------------------------------------------ metric tree builder
\* the node count computed before the build loop: the predicate is asked
\* about the position i, not about the metric id stored there
TotalMetricsCount(type, matched, broker_count) ==
    Len(matched) +
    SumSeq([i \in DOMAIN matched |->
              IF is_per_broker_metric(type, i - 1) THEN broker_count - 1 ELSE 0])

\* one metric node.  rkb_idx is the broker handed in (0 for NULL).  The
\* timestamp loop reuses the parameter rkb and leaves it on the first broker
\* of the list (NULL when the list is empty), so the node id is that broker's.
serializeMetricData(type, brokers, rkb_idx, metric_idx, broker_count, delta, is_per_broker, now_us) ==
    LET value == metricValueCalculator(type, metric_idx, brokers,
                     IF rkb_idx = 0 THEN UNINIT ELSE brokers[rkb_idx],
                     broker_count, delta, now_us)
        ts_last  == IF brokers = <<>> THEN 0 ELSE brokers[1].historic.ts_last
        ts_start == IF brokers = <<>> THEN 0 ELSE brokers[1].historic.ts_start
    IN  [initialised |-> TRUE,
         metric |-> metric_idx,
         type |-> MetricType(type, metric_idx),
         value |-> value,
         data_points |-> 1,
         time_unix_nano |-> now_us,
         start_time_unix_nano |->
             IF MetricType(type, metric_idx) = "GAUGE" THEN ts_last ELSE ts_start,
         \* with an empty broker list ts_last and ts_start are never assigned
         start_time_assigned |-> brokers # <<>>,
         has_attribute |-> is_per_broker,
         node_id |-> IF is_per_broker THEN brokers[1].rkb_nodeid ELSE 0,
         rkb |-> rkb_idx]

\* the nodes one enabled metric id expands to
ExpandMetric(type, brokers, metric_idx, broker_count, delta, now_us) ==
    IF is_per_broker_metric(type, metric_idx)
    THEN [b \in DOMAIN brokers |->
            serializeMetricData(type, brokers, b, metric_idx, broker_count,
                                delta, TRUE, now_us)]
    ELSE << serializeMetricData(type, brokers, 0, metric_idx, broker_count,
                                delta, FALSE, now_us) >>

\* the build loop over the enabled metric list: metrics[0..metric_idx)
BuildMetrics(type, brokers, matched, broker_count, delta, now_us) ==
    Concat([i \in DOMAIN matched |->
              ExpandMetric(type, brokers, matched[i], broker_count, delta, now_us)])


\* -------------------------------------------------- resource attributes
producer_attributes == <<"client_rack", "transactional_id">>
consumer_attributes == <<"client_rack", "group_id", "group_instance_id", "member_id">>

AttributeConfigs(type) ==
    IF type = RD_KAFKA_PRODUCER THEN producer_attributes
    ELSE IF type = RD_KAFKA_CONSUMER THEN consumer_attributes
    ELSE <<>>

\* configs[i].getValue(rk): the value, or NULL for a field that is not set
getValue(conf, name) == IF name \in conf THEN "value of " \o name ELSE "NULL"

count_attributes(conf, configs) ==
    Cardinality({i \in DOMAIN configs : getValue(conf, configs[i]) # "NULL"})

\* the names of the fields that are set, in the order of the config list
RECURSIVE PresentAttributes(_, _)
PresentAttributes(conf, configs) ==
    IF configs = <<>> THEN <<>>
    ELSE (IF getValue(conf, Head(configs)) # "NULL" THEN <<Head(configs)>> ELSE <<>>)
         \o PresentAttributes(conf, Tail(configs))

\* the attribute array after set_attributes: attributes[attr_idx] indexes the
\* caller's pointer variable, not the array, so only element 0 is written
\* through a valid pointer; the other elements stay as malloc left them
set_attributes(conf, configs) ==
    LET present == PresentAttributes(conf, configs)
    IN  [k \in 1..Len(present) |->
           IF k = 1 THEN [name |-> present[1], value |-> getValue(conf, present[1])]
           ELSE [name |-> UNINIT, value |-> UNINIT]]

resource_attributes(type, conf) == set_attributes(conf, AttributeConfigs(type))

\* ------------------------------------------------------------------ heap
Block(kind, idx) == [kind |-> kind, idx |-> idx, valid |-> TRUE]
\* what an array slot holds that the build loop never wrote
Garbage(kind, idx) == [kind |-> kind, idx |-> idx, valid |-> FALSE]

\* blocks allocated before the size pass, for `built` populated nodes
AllocBeforeEncode(attr_count, built) ==
    (IF attr_count > 0
     THEN <<Block("resource_attributes_struct", -1),
            Block("resource_attributes_key_values", -1)>>
          \o [k \in 1..attr_count |-> Block("resource_attributes_key_values", k - 1)]
     ELSE <<>>)
    \o <<Block("metrics", -1), Block("data_points", -1),
         Block("datapoint_attributes_key_values", -1), Block("metric_names", -1)>>
    \o Concat([k \in 1..built |-> <<Block("metrics", k - 1), Block("data_points", k - 1),
                                    Block("metric_names", k - 1)>>])

\* the pointer slot i of an array holds when free_metrics reads it
Slot(kind, i, built) == IF i < built THEN Block(kind, i) ELSE Garbage(kind, i)

free_metrics(count, built) ==
    Concat([k \in 1..count |-> <<Slot("data_points", k - 1, built),
                                 Slot("metric_names", k - 1, built),
                                 Slot("metrics", k - 1, built)>>])
    \o <<Block("data_points", -1), Block("metric_names", -1), Block("metrics", -1),
         Block("datapoint_attributes_key_values", -1)>>

free_resource_attributes(count) ==
    IF count = 0 THEN <<>>
    ELSE [k \in 1..count |-> Block("resource_attributes_key_values", k - 1)]
         \o <<Block("resource_attributes_struct", -1),
              Block("resource_attributes_key_values", -1)>>

\* ------------------------------------------------------- the encode call
\* the three failure points of the two passes, and success
Outcomes == {"size_failed", "alloc_failed", "write_failed", "ok"}

\* everything released on the way out
FreedOnExit(outcome, count, built, attr_count) ==
    (IF outcome = "write_failed" THEN <<Block("buffer", -1)>> ELSE <<>>)
    \o free_metrics(count, built) \o free_resource_attributes(attr_count)

AllocatedInCall(outcome, built, attr_count) ==
    AllocBeforeEncode(attr_count, built)
    \o (IF outcome \in {"write_failed", "ok"} THEN <<Block("buffer", -1)>> ELSE <<>>)

\* a faulty variant: the write-pass failure exit runs the reset too
HistoricOnExit_ResetOnWriteFailure(outcome, brokers, reset_us) ==
    IF outcome \in {"ok", "write_failed"}
    THEN reset_historical_metrics(brokers, reset_us) ELSE brokers

\* the historic snapshot the call leaves behind
HistoricOnExit(outcome, brokers, reset_us) ==
    IF outcome = "ok" THEN reset_historical_metrics(brokers, reset_us) ELSE brokers

StepsOfCall(outcome) ==
    <<"resource_attributes", "build">>
    \o (IF outcome = "size_failed" THEN <<"pb_get_encoded_size failed">>
        ELSE <<"pb_get_encoded_size">>)
    \o (IF outcome = "size_failed" THEN <<>>
        ELSE IF outcome = "alloc_failed" THEN <<"rd_malloc failed">>
        ELSE <<"rd_malloc">>)
    \o (IF outcome = "write_failed" THEN <<"pb_encode failed", "rd_free">>
        ELSE IF outcome = "ok" THEN <<"pb_encode">> ELSE <<>>)
    \o <<"free_metrics", "free_resource_attributes">>
    \o (IF outcome = "ok" THEN <<"reset_historical_metrics", "return buffer">>
        ELSE <<"return NULL">>)

\* a node as the encoder meets it: a division that faulted and did not trap
\* left 0
Settled(node) ==
    IF node.value = DivFault THEN [node EXCEPT !.value = IntValue(0)] ELSE node

\* metrics[k] for a slot the build loop never wrote
UninitNode ==
    [initialised |-> FALSE, metric |-> -1, type |-> UNINIT, value |-> IntValue(0),
     data_points |-> 0, time_unix_nano |-> 0, start_time_unix_nano |-> 0,
     start_time_assigned |-> FALSE, has_attribute |-> FALSE, node_id |-> 0,
     rkb |-> 0]

\* a faulty variant: the wrapping is linked whatever the node count is
EncodedMessage_AlwaysWrapped(count, built, attrs, name) ==
    [buffer |-> TRUE,
     resource_metrics |->
       << [resource |-> attrs,
           scope_metrics |->
             << [scope |-> [name |-> name, version |-> "rd_kafka_version_str"],
                 metrics |-> [k \in 1..count |->
                                IF k <= Len(built) THEN Settled(built[k])
                                ELSE UninitNode]] >>] >>]

\* the message pb_encode writes: metrics_repeated.count entries of metrics[]
EncodedMessage(count, built, attrs, name) ==
    IF count > 0
    THEN [buffer |-> TRUE,
          resource_metrics |->
            << [resource |-> attrs,
                scope_metrics |->
                  << [scope |-> [name |-> name, version |-> "rd_kafka_version_str"],
                      metrics |-> [k \in 1..count |->
                                     IF k <= Len(built) THEN Settled(built[k])
                                     ELSE UninitNode]] >>] >>]
    ELSE [buffer |-> TRUE, resource_metrics |-> <<>>]

\* no buffer is returned
NoMessage == [buffer |-> FALSE, resource_metrics |-> <<>>]

\* the undefined behaviours of one call
UndefinedIn(count, built, attrs) ==
    {"division by zero" : k \in {k \in DOMAIN built : built[k].value = DivFault}}
    \cup (IF Len(built) > count THEN {"write past the metric arrays"} ELSE {})
    \cup (IF Len(built) < count THEN {"uninitialised metric slot"} ELSE {})
    \cup (IF Len(attrs) > 1 THEN {"uninitialised attribute"} ELSE {})

\* what the call builds before the size pass from the broker fields it
\* reads: the node count, the resource attributes, the populated nodes and
\* the undefined behaviours met
BuiltFrom(brokers) ==
    LET count == TotalMetricsCount(rk_type, matched_metrics, rk_broker_cnt)
        attrs == resource_attributes(rk_type, rk_conf)
        built == BuildMetrics(rk_type, brokers, matched_metrics, rk_broker_cnt,
                              delta_temporality, clock * TickUs)
    IN  [count |-> count, attrs |-> attrs, built |-> built,
         undefined |-> UndefinedIn(count, built, attrs)]

BuiltByCall == BuiltFrom(rk_brokers)

\* what the call leaves with its caller and on the heap, given what it built
\* and the exit taken
CallRecord(c, outcome) ==
    /\ total_metrics_count' = c.count
    /\ nodes' = c.built
    /\ ub' = c.undefined
    /\ ret' = IF outcome = "ok" THEN "BUFFER" ELSE "NULL"
    /\ msg' = IF outcome = "ok"
              THEN EncodedMessage(c.count, c.built, c.attrs, "rd_kafka_name")
              ELSE NoMessage
    /\ allocated' = AllocatedInCall(outcome, Len(c.built), Len(c.attrs))
    /\ freed' = FreedOnExit(outcome, c.count, Len(c.built), Len(c.attrs))
    /\ trace' = StepsOfCall(outcome)

\* the call from the size pass on, given what it built: the exit taken
rd_kafka_telemetry_encode_metrics(c, outcome) ==
    /\ ret # "CRASH"
    /\ pre_brokers' = rk_brokers
    /\ CallRecord(c, outcome)
    /\ rk_brokers' = HistoricOnExit(outcome, rk_brokers, clock * TickUs)
    /\ UNCHANGED <<cfgvars, rk_broker_cnt, clock, budget>>

Encode ==
    \E c \in {BuiltByCall} : \E outcome \in Outcomes :
        rd_kafka_telemetry_encode_metrics(c, outcome)

\* the call meets undefined behaviour and the process dies in it
EncodeTrap ==
    \E c \in {BuiltByCall} :
        /\ ret # "CRASH"
        /\ c.undefined # {}
        /\ pre_brokers' = rk_brokers
        /\ total_metrics_count' = c.count
        /\ nodes' = c.built
        /\ ub' = c.undefined
        /\ ret' = "CRASH"
        /\ msg' = NoMessage
        /\ allocated' = AllocBeforeEncode(Len(c.attrs), Len(c.built))
        /\ freed' = <<>>
        /\ trace' = <<"resource_attributes", "build", "trap">>
        /\ UNCHANGED <<cfgvars, rk_brokers, rk_broker_cnt, clock, budget>>

\* no call has returned, or the caller is done with what the last one returned
NoCall ==
    [ret |-> "NONE", msg |-> NoMessage, nodes |-> <<>>, total_metrics_count |-> 0,
     allocated |-> <<>>, freed |-> <<>>, trace |-> <<>>, ub |-> {},
     pre_brokers |-> <<>>]

InitCall ==
    /\ ret = NoCall.ret
    /\ msg = NoCall.msg
    /\ nodes = NoCall.nodes
    /\ total_metrics_count = NoCall.total_metrics_count
    /\ allocated = NoCall.allocated
    /\ freed = NoCall.freed
    /\ trace = NoCall.trace
    /\ ub = NoCall.ub
    /\ pre_brokers = NoCall.pre_brokers

\* the next thing happens: the record of the last call is dropped
Forget ==
    /\ ret' = NoCall.ret
    /\ msg' = NoCall.msg
    /\ nodes' = NoCall.nodes
    /\ total_metrics_count' = NoCall.total_metrics_count
    /\ allocated' = NoCall.allocated
    /\ freed' = NoCall.freed
    /\ trace' = NoCall.trace
    /\ ub' = NoCall.ub
    /\ pre_brokers' = NoCall.pre_brokers

\* ------------------------------------------------------ broker subsystem
\* (the threads that own the raw counters; the encoder only reads them)

NewBroker(nodeid) ==
    [rkb_nodeid |-> nodeid,
     connects |-> 0,
     rkb_toppar_cnt |-> 0,
     rkb_avg_rtt |-> ZeroStat,
     rkb_avg_throttle |-> ZeroStat,
     rkb_avg_outbuf_latency |-> ZeroStat,
     historic |-> [assigned_partitions |-> 0, connects |-> 0, ts_last |-> 0,
                   ts_start |-> 0, rkb_avg_rtt |-> ZeroBase,
                   rkb_avg_throttle |-> ZeroBase,
                   rkb_avg_outbuf_latency |-> ZeroBase]]

\* rd_kafka_broker_add: link the broker at the tail and count it
AddBroker ==
    /\ ret # "CRASH"
    /\ Len(rk_brokers) < MaxBrokers
    /\ rk_brokers' = Append(rk_brokers, NewBroker(10 * (Len(rk_brokers) + 1) + 1))
    /\ rk_broker_cnt' = rk_broker_cnt + 1
    /\ Forget
    /\ UNCHANGED <<cfgvars, clock, budget>>

\* a connection attempt of broker b
Connect(b) ==
    /\ ret # "CRASH"
    /\ budget > 0
    /\ rk_brokers' = [rk_brokers EXCEPT ![b].connects = @ + 1]
    /\ budget' = budget - 1
    /\ Forget
    /\ UNCHANGED <<cfgvars, rk_broker_cnt, clock>>

\* the observations a broker thread adds to a running statistic in one go:
\* how many, their sum and their largest (nanoseconds)
Batches ==
    { [n |-> 4, sum |-> 200000000, max |-> 50000000],
      [n |-> 5, sum |-> 50, max |-> 10] }

\* rd_avg_add, for a batch: the count and the sum grow, and the interval
\* maximum restarts from the batch when a reset asked for it
rd_avg_add(stat, batch) ==
    [cnt |-> stat.cnt + batch.n,
     sum |-> stat.sum + batch.sum,
     maxv_interval |-> IF stat.maxv_reset = 1 \/ batch.max > stat.maxv_interval
                       THEN batch.max ELSE stat.maxv_interval,
     maxv_reset |-> 0]

ObserveRtt(b, batch) ==
    /\ ret # "CRASH"
    /\ budget > 0
    /\ rk_brokers' = [rk_brokers EXCEPT ![b].rkb_avg_rtt = rd_avg_add(@, batch)]
    /\ budget' = budget - 1
    /\ Forget
    /\ UNCHANGED <<cfgvars, rk_broker_cnt, clock>>

ObserveThrottle(b, batch) ==
    /\ ret # "CRASH"
    /\ budget > 0
    /\ rk_brokers' = [rk_brokers EXCEPT ![b].rkb_avg_throttle = rd_avg_add(@, batch)]
    /\ budget' = budget - 1
    /\ Forget
    /\ UNCHANGED <<cfgvars, rk_broker_cnt, clock>>

ObserveOutbufLatency(b, batch) ==
    /\ ret # "CRASH"
    /\ budget > 0
    /\ rk_brokers' = [rk_brokers EXCEPT
                        ![b].rkb_avg_outbuf_latency = rd_avg_add(@, batch)]
    /\ budget' = budget - 1
    /\ Forget
    /\ UNCHANGED <<cfgvars, rk_broker_cnt, clock>>

\* a partition is assigned to, or taken from, broker b
AssignPartition(b, d) ==
    /\ ret # "CRASH"
    /\ budget > 0
    /\ rk_brokers[b].rkb_toppar_cnt + d >= 0
    /\ rk_brokers' = [rk_brokers EXCEPT ![b].rkb_toppar_cnt = @ + d]
    /\ budget' = budget - 1
    /\ Forget
    /\ UNCHANGED <<cfgvars, rk_broker_cnt, clock>>

\* time passes
Tick ==
    /\ ret # "CRASH"
    /\ clock < MaxClock
    /\ clock' = clock + 1
    /\ Forget
    /\ UNCHANGED <<cfgvars, rk_brokers, rk_broker_cnt, budget>>

\* ------------------------------------------- calls racing broker threads
\* (the call takes no lock: it reads ra_v.cnt and ra_v.sum one after the
\* other, copies ra_v field by field in the reset, and reads connects.val in
\* the calculator and again in the reset, while a broker thread may write
\* between any two of these accesses)
RunningStats == {"rkb_avg_rtt", "rkb_avg_throttle", "rkb_avg_outbuf_latency"}

\* the statistic as a reader sees it that meets an observation half way:
\* each of count and sum with or without the observation
TornRead(old, new, cnt_seen, sum_seen) ==
    [old EXCEPT !.cnt = IF cnt_seen THEN new.cnt ELSE old.cnt,
                !.sum = IF sum_seen THEN new.sum ELSE old.sum]

\* a call during which broker b's thread adds a batch to one statistic,
\* either while the calculators read it or while the reset copies it
EncodeDuringObservation(b, stat, batch, cnt_seen, sum_seen, in_reset, outcome) ==
    LET observed == [rk_brokers EXCEPT ![b][stat] = rd_avg_add(@, batch)]
        torn == TornRead(rk_brokers[b][stat], observed[b][stat], cnt_seen, sum_seen)
        read == IF in_reset THEN rk_brokers
                ELSE [rk_brokers EXCEPT ![b][stat] = torn]
        exit == HistoricOnExit(outcome, observed, clock * TickUs)
    IN  /\ ret # "CRASH"
        /\ budget > 0
        /\ in_reset => outcome = "ok"
        /\ pre_brokers' = read
        /\ CallRecord(BuiltFrom(read), outcome)
        /\ rk_brokers' = IF in_reset
                         THEN [exit EXCEPT ![b].historic[stat] = Baseline(torn)]
                         ELSE exit
        /\ budget' = budget - 1
        /\ UNCHANGED <<cfgvars, rk_broker_cnt, clock>>

\* a call during which broker b's thread makes a connection attempt, after
\* the calculators read connects.val and before the reset reads it
EncodeDuringConnect(b, outcome) ==
    LET connected == [rk_brokers EXCEPT ![b].connects = @ + 1]
    IN  /\ ret # "CRASH"
        /\ budget > 0
        /\ pre_brokers' = rk_brokers
        /\ CallRecord(BuiltByCall, outcome)
        /\ rk_brokers' = HistoricOnExit(outcome, connected, clock * TickUs)
        /\ budget' = budget - 1
        /\ UNCHANGED <<cfgvars, rk_broker_cnt, clock>>

\* ------------------------------------------------------- specifications
FullCatalogue(type) == [i \in 1..MetricCnt(type) |-> i - 1]

\* the enabled-metric lists subscription matching can produce: the
\* catalogue's ids in increasing order, any of them left out
RECURSIVE SortedSubseqs(_)
SortedSubseqs(s) ==
    IF s = <<>> THEN {<<>>}
    ELSE LET rest == SortedSubseqs(Tail(s))
         IN  rest \cup {<<Head(s)>> \o r : r \in rest}

InitState ==
    /\ rk_type \in {RD_KAFKA_PRODUCER, RD_KAFKA_CONSUMER}
    /\ delta_temporality \in BOOLEAN
    /\ rk_brokers = <<>>
    /\ rk_broker_cnt = 0
    /\ clock = 1
    /\ InitCall

\* the client with every metric of its catalogue enabled, and the broker
\* threads at work
Init ==
    /\ InitState
    /\ matched_metrics = FullCatalogue(rk_type)
    /\ rk_conf = {}
    /\ budget = MaxEvents

Next ==
    \/ AddBroker
    \/ \E b \in DOMAIN rk_brokers : Connect(b)
    \/ \E b \in DOMAIN rk_brokers, batch \in Batches : ObserveRtt(b, batch)
    \/ \E b \in DOMAIN rk_brokers, batch \in Batches : ObserveThrottle(b, batch)
    \/ \E b \in DOMAIN rk_brokers, batch \in Batches : ObserveOutbufLatency(b, batch)
    \/ \E b \in DOMAIN rk_brokers, d \in {-1, 1} : AssignPartition(b, d)
    \/ Encode
    \/ EncodeTrap

Spec == Init /\ [][Next]_vars

\* connection attempts while time passes: the connection metrics alone
InitRate ==
    /\ InitState
    /\ matched_metrics = <<RD_KAFKA_TELEMETRY_METRIC_CONNECTION_CREATION_RATE,
                           RD_KAFKA_TELEMETRY_METRIC_CONNECTION_CREATION_TOTAL>>
    /\ rk_conf = {}
    /\ budget = MaxEvents

NextRate ==
    \/ AddBroker
    \/ \E b \in DOMAIN rk_brokers : Connect(b)
    \/ Tick
    \/ Encode

SpecRate == InitRate /\ [][NextRate]_vars

\* every enabled-metric list and identity, with idle brokers: the shape of
\* the tree and the heap of one call
InitTree ==
    /\ InitState
    /\ ~delta_temporality
    /\ matched_metrics \in SortedSubseqs(FullCatalogue(rk_type))
    /\ rk_conf \in SUBSET Range(AttributeConfigs(rk_type))
    /\ budget = 0

NextTree ==
    \/ AddBroker
    \/ Encode
    \/ EncodeTrap

SpecTree == InitTree /\ [][NextTree]_vars

\* the broker threads at work while calls are under way
NextRace ==
    \/ AddBroker
    \/ \E b \in DOMAIN rk_brokers : Connect(b)
    \/ \E b \in DOMAIN rk_brokers, batch \in Batches : ObserveRtt(b, batch)
    \/ \E b \in DOMAIN rk_brokers, batch \in Batches : ObserveThrottle(b, batch)
    \/ Encode
    \/ \E b \in DOMAIN rk_brokers, stat \in RunningStats, batch \in Batches,
          cnt_seen, sum_seen, in_reset \in BOOLEAN, outcome \in Outcomes :
          EncodeDuringObservation(b, stat, batch, cnt_seen, sum_seen, in_reset, outcome)
    \/ \E b \in DOMAIN rk_brokers, outcome \in Outcomes : EncodeDuringConnect(b, outcome)

SpecRace == Init /\ [][NextRace]_vars

\* ================================================================ claims
Returned == ret \in {"NULL", "BUFFER"}
Steps == Range(trace)
FailedCall ==
    \/ "pb_get_encoded_size failed" \in Steps
    \/ "rd_malloc failed" \in Steps
    \/ "pb_encode failed" \in Steps

HistoricOf(brokers) == [i \in DOMAIN brokers |-> brokers[i].historic]

\* a broker whose live counters differ from its baseline: a reset would move it
Moved(b) ==
    \/ b.connects # b.historic.connects
    \/ b.rkb_toppar_cnt # b.historic.assigned_partitions
    \/ Baseline(b.rkb_avg_rtt) # b.historic.rkb_avg_rtt
    \/ Baseline(b.rkb_avg_throttle) # b.historic.rkb_avg_throttle
    \/ Baseline(b.rkb_avg_outbuf_latency) # b.historic.rkb_avg_outbuf_latency

\* C1: a call that fails at the size pass, at the buffer allocation or at the
\* write pass returns NULL with no message, and leaves every broker's
\* historic snapshot as it found it.
C1_FailureKeepsBaseline ==
    FailedCall =>
        /\ ret = "NULL"
        /\ msg = NoMessage
        /\ HistoricOf(rk_brokers) = HistoricOf(pre_brokers)

\* C1 witness: the write pass failed while a broker had counters ahead of
\* its baseline
C1_Witness ==
    /\ "pb_encode failed" \in Steps
    /\ \E i \in DOMAIN rk_brokers : Moved(rk_brokers[i])

\* the positions of a step in the trace of the last call
At(step) == {k \in DOMAIN trace : trace[k] = step}

\* C2: a call that succeeds runs the reset exactly once, after the write pass
\* succeeded, and leaves every broker's baseline equal to its live counters,
\* with ts_last at the time of the reset.
C2_SuccessAdvancesBaseline ==
    ret = "BUFFER" =>
        /\ Cardinality(At("reset_historical_metrics")) = 1
        /\ \A r \in At("reset_historical_metrics") :
              \E w \in At("pb_encode") : w < r
        /\ \A i \in DOMAIN rk_brokers :
              LET b == rk_brokers[i]
              IN  /\ b.historic.connects = b.connects
                  /\ b.historic.assigned_partitions = b.rkb_toppar_cnt
                  /\ b.historic.rkb_avg_rtt.cnt = b.rkb_avg_rtt.cnt
                  /\ b.historic.rkb_avg_rtt.sum = b.rkb_avg_rtt.sum
                  /\ b.historic.rkb_avg_throttle.cnt = b.rkb_avg_throttle.cnt
                  /\ b.historic.rkb_avg_throttle.sum = b.rkb_avg_throttle.sum
                  /\ b.historic.rkb_avg_outbuf_latency.cnt = b.rkb_avg_outbuf_latency.cnt
                  /\ b.historic.rkb_avg_outbuf_latency.sum = b.rkb_avg_outbuf_latency.sum
                  /\ b.historic.ts_last = clock * TickUs

\* C2 witness: a successful call found a broker with queue-latency
\* observations its baseline did not have
C2_Witness ==
    /\ ret = "BUFFER"
    /\ \E i \in DOMAIN pre_brokers :
          /\ pre_brokers[i].rkb_avg_outbuf_latency.cnt
               > pre_brokers[i].historic.rkb_avg_outbuf_latency.cnt
          /\ rk_brokers[i].historic # pre_brokers[i].historic

\* the nodes of the last call that report metric id
NodesOf(id) == {k \in DOMAIN nodes : nodes[k].metric = id}

\* every delta metric of the client's role, computed on the state as it is
DeltaMetricsNow ==
    {calculate_connection_creation_total(rk_brokers, delta_temporality),
     calculate_connection_creation_rate(rk_brokers, clock * TickUs)}
    \cup {calculate_broker_avg_rtt(rk_brokers[i]) : i \in DOMAIN rk_brokers}
    \cup (IF rk_type = RD_KAFKA_PRODUCER
          THEN {calculate_throttle_avg(rk_brokers, rk_broker_cnt),
                calculate_queue_time_avg(rk_brokers, rk_broker_cnt)}
          ELSE {calculate_consumer_assigned_partitions(rk_brokers)})

\* C3: in delta mode, computed again right after a successful encode with no
\* raw counter changed, every delta metric evaluates to 0.
C3_DeltaZeroAfterReset ==
    (ret = "BUFFER" /\ delta_temporality) =>
        \A v \in DeltaMetricsNow : v.member # "fault" /\ v.num = 0

\* C7: no calculator divides by zero; a call never meets a zero denominator.
C7_NoDivisionByZero ==
    ret # "NONE" => "division by zero" \notin ub

\* C9: the average RTT of a node is exactly (current_sum - historic_sum) /
\* ((current_count - historic_count) x 1,000,000) when the broker has new
\* observations, and 0 otherwise.
C9_AvgRttExact ==
    \A k \in NodesOf(RD_KAFKA_TELEMETRY_METRIC_NODE_REQUEST_LATENCY_AVG) :
        LET b == pre_brokers[nodes[k].rkb]
            cnt_diff == b.rkb_avg_rtt.cnt - b.historic.rkb_avg_rtt.cnt
            sum_diff == b.rkb_avg_rtt.sum - b.historic.rkb_avg_rtt.sum
            v == nodes[k].value
        IN  IF cnt_diff > 0
            THEN v.num * (cnt_diff * 1000000) = sum_diff * v.den
            ELSE v.num = 0

\* C6: the i-th node of a broker-scoped metric carries the node id of the
\* i-th broker of the list, the broker whose counters gave its value.
C6_NodeIdOfOwnBroker ==
    \A k \in DOMAIN nodes :
        nodes[k].has_attribute =>
            nodes[k].node_id = pre_brokers[nodes[k].rkb].rkb_nodeid

\* a broker's average over its new observations only, in whole milliseconds
NewObservationsAvgMs(cur, hist) ==
    IF cur.cnt <= hist.cnt THEN 0
    ELSE (cur.sum - hist.sum) \div ((cur.cnt - hist.cnt) * 1000000)

RECURSIVE SumOver(_, _)
SumOver(f, S) ==
    IF S = {} THEN 0
    ELSE LET x == CHOOSE x \in S : TRUE IN f[x] + SumOver(f, S \ {x})

\* C10: average throttle time and average queue time are the sum over the
\* brokers of the list of each broker's new-observations-only average in
\* milliseconds, divided by the broker count (checked where the client has
\* at least one broker; the quotients are integer quotients).
C10_AvgOfBrokerAverages ==
    (Returned /\ rk_type = RD_KAFKA_PRODUCER /\ rk_broker_cnt > 0) =>
        /\ \A k \in NodesOf(RD_KAFKA_TELEMETRY_METRIC_PRODUCER_PRODUCE_THROTTLE_TIME_AVG) :
              nodes[k].value = IntValue(
                  SumOver([i \in DOMAIN pre_brokers |->
                             NewObservationsAvgMs(pre_brokers[i].rkb_avg_throttle,
                                 pre_brokers[i].historic.rkb_avg_throttle)],
                          DOMAIN pre_brokers) \div rk_broker_cnt)
        /\ \A k \in NodesOf(RD_KAFKA_TELEMETRY_METRIC_PRODUCER_RECORD_QUEUE_TIME_AVG) :
              nodes[k].value = IntValue(
                  SumOver([i \in DOMAIN pre_brokers |->
                             NewObservationsAvgMs(pre_brokers[i].rkb_avg_outbuf_latency,
                                 pre_brokers[i].historic.rkb_avg_outbuf_latency)],
                          DOMAIN pre_brokers) \div rk_broker_cnt)

\* C10 witness: two brokers, one with new throttle observations and one
\* without, and a throttle average that is not 0
C10_Witness ==
    /\ Returned
    /\ rk_type = RD_KAFKA_PRODUCER
    /\ \E i, j \in DOMAIN pre_brokers :
          /\ pre_brokers[i].rkb_avg_throttle.cnt > pre_brokers[i].historic.rkb_avg_throttle.cnt
          /\ pre_brokers[j].rkb_avg_throttle.cnt = pre_brokers[j].historic.rkb_avg_throttle.cnt
    /\ \E k \in NodesOf(RD_KAFKA_TELEMETRY_METRIC_PRODUCER_PRODUCE_THROTTLE_TIME_AVG) :
          nodes[k].value.num > 0

\* what the rate calculator of the last call had before it: the connection
\* attempts made since the baselines, and the time since ts_last (the ts_last
\* of the last broker of the list, 0 with no broker), in microseconds
ConnectsSinceBaseline ==
    SumOver([i \in DOMAIN pre_brokers |->
               pre_brokers[i].connects - pre_brokers[i].historic.connects],
            DOMAIN pre_brokers)
ElapsedUs ==
    clock * TickUs -
    (IF pre_brokers = <<>> THEN 0 ELSE pre_brokers[Len(pre_brokers)].historic.ts_last)

\* C8: the rate is the sum divided by the elapsed seconds whenever the elapsed
\* time is positive, and the undivided sum when it is not.
C8_RateDividesByElapsed ==
    Returned =>
        \A k \in NodesOf(RD_KAFKA_TELEMETRY_METRIC_CONNECTION_CREATION_RATE) :
            LET v == nodes[k].value
            IN  /\ v.den > 0
                /\ IF ElapsedUs > 0
                   THEN v.num * ElapsedUs = ConnectsSinceBaseline * UsPerSecond * v.den
                   ELSE v.num = ConnectsSinceBaseline * v.den

\* how often a block is released by the last call
TimesFreed(block) == Cardinality({k \in DOMAIN freed : freed[k] = block})

\* C4: on every exit of the call each block the call allocated is released
\* exactly once, nothing is released that the call did not allocate, and the
\* output buffer alone survives a success; a write-pass failure releases it.
C4_HeapBalanced ==
    Returned =>
        /\ \A k \in DOMAIN freed :
              freed[k].valid /\ freed[k] \in Range(allocated)
        /\ \A k \in DOMAIN allocated :
              TimesFreed(allocated[k]) =
                  (IF allocated[k].kind = "buffer" /\ ret = "BUFFER" THEN 0 ELSE 1)
        /\ ret = "BUFFER" => Block("buffer", -1) \in Range(allocated)
        /\ "pb_encode failed" \in Steps => TimesFreed(Block("buffer", -1)) = 1

\* the ids the catalogue reports once per broker, for either role
BrokerScoped ==
    {RD_KAFKA_TELEMETRY_METRIC_NODE_REQUEST_LATENCY_AVG,
     RD_KAFKA_TELEMETRY_METRIC_NODE_REQUEST_LATENCY_MAX}

\* the metric entries of the message of the last call
MessageMetrics ==
    IF msg.resource_metrics = <<>> THEN <<>>
    ELSE msg.resource_metrics[1].scope_metrics[1].metrics

\* C5: every enabled id has one node per broker of the list when it is
\* broker-scoped and one node otherwise, and the encoded message carries as
\* many metric entries as these expansions add up to, each with one data
\* point.
C5_OneNodePerBroker ==
    Returned =>
        /\ \A i \in DOMAIN matched_metrics :
              Cardinality(NodesOf(matched_metrics[i])) =
                  (IF matched_metrics[i] \in BrokerScoped
                   THEN Len(pre_brokers) ELSE 1)
        /\ ret = "BUFFER" =>
              /\ Len(MessageMetrics) = Len(nodes)
              /\ \A k \in DOMAIN MessageMetrics : MessageMetrics[k].data_points = 1

\* the connection attempts of every broker of the list, ever
ConnectsEver(brokers) ==
    SumOver([i \in DOMAIN brokers |-> brokers[i].connects], DOMAIN brokers)

\* C11: connection total is the sum of the brokers' connect counts with delta
\* temporality off and the sum of (connect count - baseline) with it on; with
\* delta temporality off the value never decreases from one step to the
\* next, and a reset leaves it as it was.
C11_ConnectionTotal ==
    /\ [](Returned =>
            \A k \in NodesOf(RD_KAFKA_TELEMETRY_METRIC_CONNECTION_CREATION_TOTAL) :
                nodes[k].value =
                    IntValue(IF delta_temporality THEN ConnectsSinceBaseline
                             ELSE ConnectsEver(pre_brokers)))
    /\ [][~delta_temporality =>
            LET before == calculate_connection_creation_total(rk_brokers, FALSE).num
                after  == calculate_connection_creation_total(rk_brokers', FALSE).num
            IN  /\ after >= before
                /\ ret' = "BUFFER" => after = before]_vars

\* C11 witness: with delta temporality off, a call reports a connection
\* attempt that an earlier reset already took into the baseline
C11_Witness ==
    /\ Returned
    /\ ~delta_temporality
    /\ \E i \in DOMAIN pre_brokers : pre_brokers[i].historic.connects > 0
    /\ \E k \in NodesOf(RD_KAFKA_TELEMETRY_METRIC_CONNECTION_CREATION_TOTAL) :
          nodes[k].value.num > 0

\* no broker of the list has an observation of the statistic newer than its
\* baseline: the interval the call reports on has none
NoneSinceReset(brokers, stat) ==
    \A i \in DOMAIN brokers : brokers[i][stat].cnt = brokers[i].historic[stat].cnt

\* C12: a maximum reported for an interval holds no observation made before
\* the reset that opened the interval: with no observation since that reset
\* the maximum is 0.
C12_MaxStartsFromZero ==
    Returned =>
        /\ \A k \in NodesOf(RD_KAFKA_TELEMETRY_METRIC_NODE_REQUEST_LATENCY_MAX) :
              NoneSinceReset(<<pre_brokers[nodes[k].rkb]>>, "rkb_avg_rtt")
                  => nodes[k].value.num = 0
        /\ rk_type = RD_KAFKA_PRODUCER =>
              /\ \A k \in NodesOf(RD_KAFKA_TELEMETRY_METRIC_PRODUCER_PRODUCE_THROTTLE_TIME_MAX) :
                    NoneSinceReset(pre_brokers, "rkb_avg_throttle")
                        => nodes[k].value.num = 0
              /\ \A k \in NodesOf(RD_KAFKA_TELEMETRY_METRIC_PRODUCER_RECORD_QUEUE_TIME_MAX) :
                    NoneSinceReset(pre_brokers, "rkb_avg_outbuf_latency")
                        => nodes[k].value.num = 0

\* C13: with an empty enabled-metric list a successful call returns a message
\* with zero metric entries that still carries the ResourceMetrics wrapping
\* with the resource attributes and the ScopeMetrics wrapping with the
\* instrumentation name and version.
C13_EmptyListKeepsWrapping ==
    (ret = "BUFFER" /\ matched_metrics = <<>>) =>
        /\ Len(msg.resource_metrics) = 1
        /\ msg.resource_metrics[1].resource = resource_attributes(rk_type, rk_conf)
        /\ Len(msg.resource_metrics[1].scope_metrics) = 1
        /\ msg.resource_metrics[1].scope_metrics[1].scope =
               [name |-> "rd_kafka_name", version |-> "rd_kafka_version_str"]
        /\ msg.resource_metrics[1].scope_metrics[1].metrics = <<>>

\* C13 amended: with an empty enabled-metric list the call fails only if the
\* size pass, the buffer allocation or the write pass fails; the message it
\* returns is empty: no metric entry, no ResourceMetrics and no ScopeMetrics
\* wrapping, whatever resource attributes the client has.
C13_EmptyListEmptyMessage ==
    (Returned /\ matched_metrics = <<>>) =>
        /\ total_metrics_count = 0
        /\ nodes = <<>>
        /\ ~FailedCall => ret = "BUFFER"
        /\ ret = "BUFFER" => msg.buffer /\ msg.resource_metrics = <<>>

\* C13 witness: a client with resource attributes and no enabled metric got
\* a buffer
C13_Witness ==
    /\ ret = "BUFFER"
    /\ matched_metrics = <<>>
    /\ rk_conf # {}
    /\ msg.buffer

\* the attribute names of a role in their fixed order, and the entries a
\* client with the configured fields conf is to get
RoleAttributeOrder(type) ==
    IF type = RD_KAFKA_PRODUCER THEN <<"client_rack", "transactional_id">>
    ELSE IF type = RD_KAFKA_CONSUMER
    THEN <<"client_rack", "group_id", "group_instance_id", "member_id">>
    ELSE <<>>

ExpectedAttributes(type, conf) ==
    LET present == SelectSeq(RoleAttributeOrder(type), LAMBDA n : n \in conf)
    IN  [k \in DOMAIN present |->
           [name |-> present[k], value |-> "value of " \o present[k]]]

\* C14: the resource attribute set holds, in the role's order, one name/value
\* entry for each field that has a value and none for the others, for every
\* combination of present and absent fields.
C14_AttributesOfPresentFields ==
    Returned =>
        /\ "uninitialised attribute" \notin ub
        /\ msg.resource_metrics # <<>> =>
              msg.resource_metrics[1].resource = ExpectedAttributes(rk_type, rk_conf)

\* C15: every data point of a call has a defined start timestamp, a ts_last
\* of the snapshot for a GAUGE and a ts_start of the snapshot for a SUM, and
\* the capture timestamp of the call, for every broker count.
C15_TimestampsDefined ==
    Returned =>
        \A k \in DOMAIN nodes :
            /\ nodes[k].time_unix_nano = clock * TickUs
            /\ nodes[k].start_time_assigned
            /\ pre_brokers # <<>> =>
                  \E i \in DOMAIN pre_brokers :
                      nodes[k].start_time_unix_nano =
                          (IF nodes[k].type = "GAUGE"
                           THEN pre_brokers[i].historic.ts_last
                           ELSE pre_brokers[i].historic.ts_start)

\* the raw counters of the brokers, every field of them
LiveOf(brokers) ==
    [i \in DOMAIN brokers |->
       [connects |-> brokers[i].connects,
        rkb_toppar_cnt |-> brokers[i].rkb_toppar_cnt,
        rkb_avg_rtt |-> brokers[i].rkb_avg_rtt,
        rkb_avg_throttle |-> brokers[i].rkb_avg_throttle,
        rkb_avg_outbuf_latency |-> brokers[i].rkb_avg_outbuf_latency]]

\* the raw counters without the maxv_reset flags
LiveValuesOf(brokers) ==
    [i \in DOMAIN brokers |->
       [connects |-> brokers[i].connects,
        rkb_toppar_cnt |-> brokers[i].rkb_toppar_cnt,
        stats |-> [s \in {"rkb_avg_rtt", "rkb_avg_throttle", "rkb_avg_outbuf_latency"} |->
                     [cnt |-> brokers[i][s].cnt, sum |-> brokers[i][s].sum,
                      maxv_interval |-> brokers[i][s].maxv_interval]]]]

\* a step that is a call of rd_kafka_telemetry_encode_metrics that returns
CallReturns == ret' \in {"NULL", "BUFFER"}

\* C16: a call, its reset step included, writes no field of the raw counters,
\* on success or on failure.
C16_RawCountersReadOnly ==
    [][CallReturns => LiveOf(rk_brokers') = LiveOf(rk_brokers)]_vars

\* C16 amended: a call writes no field of the raw counters except the
\* maxv_reset flags of the three running statistics, which the reset step of
\* a successful call sets to 1; a failed call writes nothing at all.
C16_OnlyMaxvResetWritten ==
    [][CallReturns =>
         /\ LiveValuesOf(rk_brokers') = LiveValuesOf(rk_brokers)
         /\ ret' = "NULL" => rk_brokers' = rk_brokers
         /\ ret' = "BUFFER" =>
               \A i \in DOMAIN rk_brokers' :
                   /\ rk_brokers'[i].rkb_avg_rtt.maxv_reset = 1
                   /\ rk_brokers'[i].rkb_avg_throttle.maxv_reset = 1
                   /\ rk_brokers'[i].rkb_avg_outbuf_latency.maxv_reset = 1]_vars

\* C16 witness: a successful call found a broker with RTT observations and a
\* clear maxv_reset flag, and left the flag set
C16_Witness ==
    /\ ret = "BUFFER"
    /\ \E i \in DOMAIN pre_brokers :
          /\ pre_brokers[i].rkb_avg_rtt.maxv_interval > 0
          /\ pre_brokers[i].rkb_avg_rtt.maxv_reset = 0
          /\ rk_brokers[i].rkb_avg_rtt.maxv_reset = 1

\* the count and the sum of a running statistic or of its baseline
PairOf(stat) == [cnt |-> stat.cnt, sum |-> stat.sum]

\* C17: the count and the sum a calculator or the reset uses are a pair the
\* statistic held at one instant, before or after a concurrent observation,
\* and no count or sum difference the calculators compute is negative.
C17_PairedSnapshot ==
    [][CallReturns =>
         \A i \in DOMAIN rk_brokers : \A s \in RunningStats :
             LET held == {PairOf(rk_brokers[i][s]), PairOf(rk_brokers'[i][s])}
             IN  /\ PairOf(pre_brokers'[i][s]) \in held
                 /\ ret' = "BUFFER" => PairOf(rk_brokers'[i].historic[s]) \in held
                 /\ pre_brokers'[i][s].cnt >= pre_brokers'[i].historic[s].cnt
                 /\ pre_brokers'[i][s].sum >= pre_brokers'[i].historic[s].sum]_vars

\* the connect counts the baselines of the brokers hold
BaselineConnects(brokers) ==
    SumOver([i \in DOMAIN brokers |-> brokers[i].historic.connects], DOMAIN brokers)

\* C19: in delta mode every successful call reports as connection total
\* exactly what its reset adds to the baselines, so the reports add up to the
\* baseline connect count: no attempt is left out and none counted twice.
C19_ReportsAddUpToBaseline ==
    [][(ret' = "BUFFER" /\ delta_temporality) =>
         \A k \in {j \in DOMAIN nodes' :
                     nodes'[j].metric = RD_KAFKA_TELEMETRY_METRIC_CONNECTION_CREATION_TOTAL} :
             BaselineConnects(rk_brokers) + nodes'[k].value.num
                 = BaselineConnects(rk_brokers')]_vars

\* C18: the node count computed before the build loop equals the number of
\* nodes the build loop populates, so no slot is encoded or freed without
\* having been initialised and no node is written past the arrays.
C18_CountMatchesBuiltNodes ==
    ret # "NONE" =>
        /\ total_metrics_count = Len(nodes)
        /\ "uninitialised metric slot" \notin ub
        /\ "write past the metric arrays" \notin ub
        /\ \A k \in DOMAIN freed : freed[k].valid
        /\ \A k \in DOMAIN MessageMetrics : MessageMetrics[k].initialised

====
